---- MODULE Spec2Model ----
(***************************************************************************)
(* Model of the ELF decoder in src/elf/src/elf.rs (Elf::open, Elf::new and *)
(* the four load_* stages).                                                *)
(*                                                                         *)
(* Representation.  A buffer is a sequence of bytes (0..255); byte offset  *)
(* o of the source is element o+1 of the sequence.  A decoded unsigned     *)
(* integer of w bytes (u16, u32, u64) is the sequence of its w base-256    *)
(* digits, most significant digit first, so that values of 2^31 and above  *)
(* keep their full width: <<0,0,1,2>> is the u32 0x00000102.               *)
(* The target is taken to have a 64-bit usize, so `as usize` on a u64 is   *)
(* the identity.  A panic is the error string in err and pc = "panic".     *)
(***************************************************************************)
EXTENDS Integers, Sequences, FiniteSets, TLC

VARIABLES
    input,             \* the bytes handed to Elf::new, or the file's content for Elf::open
    mode,              \* "new" (Elf::new called directly) or "open" (Elf::open)
    pc,                \* position in Elf::open / Elf::new
    file,              \* the File of Elf::open: "none", "open" or "closed"
    data,              \* Elf.data
    identification,    \* Elf.header.identification
    description,       \* Elf.header.description
    section_headers,   \* Elf.section_headers
    program_headers,   \* Elf.program_headers
    cursor,            \* absolute byte offset of the table reader's Cursor
    stage,             \* the load_* function of Elf::new entered last, or "none"
    err,               \* "none", or the panic / io error raised
    result             \* <<>> until Elf::new returns, then <<the Elf value>>

vars == <<input, mode, pc, file, data, identification, description,
          section_headers, program_headers, cursor, stage, err, result>>

----------------------------------------------------------------------------
(* Bounds of the model *)

\* largest section / program header count placed in an input
MaxNum == 2

----------------------------------------------------------------------------
(* Integer primitives *)

Zeros(n) == [i \in 1..n |-> 0]

Reverse(s) == [i \in 1..Len(s) |-> s[Len(s) + 1 - i]]

\* the n bytes of the buffer starting at byte offset pos, in file order
RawBytes(buf, pos, n) == [i \in 1..n |-> buf[pos + i]]

\* read_exact on a Cursor succeeds iff n bytes remain
Available(buf, pos, n) == pos + n <= Len(buf)

\* variant of ReadUint: the byte order parameter is ignored
ReadUintNative(buf, pos, n, e) == RawBytes(buf, pos, n)

\* ReadBytesExt::read_uN::<E>: E = LittleEndian for e = 1, BigEndian otherwise
ReadUint(buf, pos, n, e) ==
    IF e = 1 THEN Reverse(RawBytes(buf, pos, n)) ELSE RawBytes(buf, pos, n)

\* variant of Widen: sign extension, as a cast through a signed type gives
WidenSigned(v, w) ==
    [i \in 1..(w - Len(v)) |-> IF v[1] >= 128 THEN 255 ELSE 0] \o v

\* `as u64` on an unsigned value: zero extension to w bytes
Widen(v, w) == Zeros(w - Len(v)) \o v

\* the value of a digit sequence that is at most a length (below 2^31)
RECURSIVE Val(_)
Val(v) == IF v = <<>> THEN 0 ELSE Val(SubSeq(v, 1, Len(v) - 1)) * 256 + v[Len(v)]

\* the w digits of n, for n a length (below 2^31, so its digits above the
\* fourth are 0)
ToDigits(n, w) ==
    [i \in 1..w |-> IF w - i >= 4 THEN 0 ELSE (n \div (256 ^ (w - i))) % 256]

\* a <= b for digit sequences of one length
LeqDigits(a, b) ==
    \/ a = b
    \/ \E i \in 1..Len(a) :
         /\ a[i] < b[i]
         /\ \A j \in 1..(i - 1) : a[j] = b[j]

\* &self.data[off as usize ..] does not panic iff off <= data.len()
SliceFromOk(buf, off) == LeqDigits(off, ToDigits(Len(buf), Len(off)))

----------------------------------------------------------------------------
(* Structures and their Default values *)

DefaultIdentification ==
    [magic |-> Zeros(4), class |-> 0, endianness |-> 0, version |-> 0,
     os_abi |-> 0, abi_version |-> 0]

DefaultDescription ==
    [obj_type |-> Zeros(2), machine |-> Zeros(2), version |-> Zeros(4),
     entry |-> Zeros(8), program_hdr_offset |-> Zeros(8),
     section_hdr_offset |-> Zeros(8), flags |-> Zeros(4),
     elf_hdr_size |-> Zeros(2), program_hdr_entry_size |-> Zeros(2),
     program_hdr_num |-> Zeros(2), section_hdr_entry_size |-> Zeros(2),
     section_hdr_num |-> Zeros(2), section_hdr_str_index |-> Zeros(2)]

DefaultSectionHeader ==
    [name_index |-> Zeros(4), section_type |-> Zeros(4), flags |-> Zeros(8),
     address |-> Zeros(8), offset |-> Zeros(8), size |-> Zeros(8),
     link |-> Zeros(4), info |-> Zeros(4), align |-> Zeros(8),
     entry_size |-> Zeros(8)]

DefaultProgramHeader ==
    [entry_type |-> Zeros(4), flags |-> Zeros(4), offset |-> Zeros(8),
     virtual_address |-> Zeros(8), physical_address |-> Zeros(8),
     file_size |-> Zeros(8), memory_size |-> Zeros(8), align |-> Zeros(8)]

\* one read of the source: field assigned, bytes read, bytes stored
F(name, width, store) == [name |-> name, width |-> width, store |-> store]

----------------------------------------------------------------------------
(* Field layouts: the reads of each function in source order *)

\* reads before the class match of load_description_with_byteorder
DescHead == << F("obj_type", 2, 2), F("machine", 2, 2), F("version", 4, 4) >>

\* the class match arm followed by the reads after the match
DescRest(class) ==
    (IF class = 1
     THEN << F("entry", 4, 8), F("program_hdr_offset", 4, 8),
             F("section_hdr_offset", 4, 8) >>
     ELSE << F("entry", 8, 8), F("program_hdr_offset", 8, 8),
             F("section_hdr_offset", 8, 8) >>)
    \o << F("flags", 4, 4), F("elf_hdr_size", 2, 2),
          F("program_hdr_entry_size", 2, 2), F("program_hdr_num", 2, 2),
          F("section_hdr_entry_size", 2, 2), F("section_hdr_num", 2, 2),
          F("section_hdr_str_index", 2, 2) >>

\* reads of a section record before the class match
SectionHead == << F("name_index", 4, 4), F("section_type", 4, 4) >>

\* the class match arm of a section record
SectionBody(class) ==
    IF class = 1
    THEN << F("flags", 4, 8), F("address", 4, 8), F("offset", 4, 8),
            F("size", 4, 8), F("link", 4, 4), F("info", 4, 4),
            F("align", 4, 8), F("entry_size", 4, 8) >>
    ELSE << F("flags", 8, 8), F("address", 8, 8), F("offset", 8, 8),
            F("size", 8, 8), F("link", 4, 4), F("info", 4, 4),
            F("align", 8, 8), F("entry_size", 8, 8) >>

\* variant of ProgramBody: the 64-bit arm keeps the field order of the 32-bit arm
ProgramBodyFlagsLast(class) ==
    LET w == IF class = 1 THEN 4 ELSE 8 IN
    << F("entry_type", 4, 4), F("offset", w, 8), F("virtual_address", w, 8),
       F("physical_address", w, 8), F("file_size", w, 8),
       F("memory_size", w, 8), F("flags", 4, 4), F("align", w, 8) >>

\* the class match arm of a program record
ProgramBody(class) ==
    IF class = 1
    THEN << F("entry_type", 4, 4), F("offset", 4, 8),
            F("virtual_address", 4, 8), F("physical_address", 4, 8),
            F("file_size", 4, 8), F("memory_size", 4, 8), F("flags", 4, 4),
            F("align", 4, 8) >>
    ELSE << F("entry_type", 4, 4), F("flags", 4, 4), F("offset", 8, 8),
            F("virtual_address", 8, 8), F("physical_address", 8, 8),
            F("file_size", 8, 8), F("memory_size", 8, 8), F("align", 8, 8) >>

----------------------------------------------------------------------------
(* Sequential reads through a cursor *)

\* variant of ReadFields: a read that finds too few bytes leaves the field
\* and the rest of the layout at their defaults and reports success
RECURSIVE ReadFieldsLenient(_, _, _, _, _)
ReadFieldsLenient(buf, pos, e, layout, rec) ==
    IF layout = <<>> \/ ~Available(buf, pos, Head(layout).width)
    THEN [ok |-> TRUE, rec |-> rec, pos |-> pos]
    ELSE ReadFieldsLenient(buf, pos + Head(layout).width, e, Tail(layout),
                           [rec EXCEPT ![Head(layout).name] =
                                Widen(ReadUint(buf, pos, Head(layout).width, e),
                                      Head(layout).store)])

\* The reads of `layout` in order from byte offset pos, each assigned to its
\* field of rec; stops at the first read that finds too few bytes (the
\* unwrap that panics), with the fields assigned so far.
RECURSIVE ReadFields(_, _, _, _, _)
ReadFields(buf, pos, e, layout, rec) ==
    IF layout = <<>>
    THEN [ok |-> TRUE, rec |-> rec, pos |-> pos]
    ELSE LET f == Head(layout) IN
         IF ~Available(buf, pos, f.width)
         THEN [ok |-> FALSE, rec |-> rec, pos |-> pos]
         ELSE ReadFields(buf, pos + f.width, e, Tail(layout),
                         [rec EXCEPT ![f.name] =
                              Widen(ReadUint(buf, pos, f.width, e), f.store)])

----------------------------------------------------------------------------
(* The decoding stages as functions of the buffer *)

\* the single-byte fields of load_identification, in assignment order;
\* field k is read from byte offset 3 + k
IdentBytes == << "class", "endianness", "version", "os_abi", "abi_version" >>

RECURSIVE ReadIdentBytes(_, _, _)
ReadIdentBytes(buf, k, id) ==
    IF k > Len(IdentBytes)
    THEN [err |-> "none", id |-> id]
    ELSE IF Len(buf) <= 3 + k
         THEN [err |-> "index out of bounds", id |-> id]
         ELSE ReadIdentBytes(buf, k + 1, [id EXCEPT ![IdentBytes[k]] = buf[3 + k + 1]])

\* variant of LoadIdentification: bytes the buffer does not have stay at
\* their defaults and no error is raised
LoadIdentificationLenient(buf, id) ==
    LET r == IF Len(buf) < 4 THEN [err |-> "none", id |-> id]
             ELSE ReadIdentBytes(buf, 1, [id EXCEPT !.magic = ReadUint(buf, 0, 4, 2)])
    IN  [err |-> "none", id |-> r.id]

\* load_identification: magic from data[0..4] as big-endian u32, then data[4..=8]
LoadIdentification(buf, id) ==
    IF Len(buf) < 4
    THEN [err |-> "range end index out of range", id |-> id]
    ELSE ReadIdentBytes(buf, 1, [id EXCEPT !.magic = ReadUint(buf, 0, 4, 2)])

\* load_description_with_byteorder::<E>
LoadDescriptionWithByteorder(buf, class, e, desc) ==
    IF Len(buf) < 16
    THEN [err |-> "range start index out of range", desc |-> desc]
    ELSE LET h == ReadFields(buf, 16, e, DescHead, desc) IN
         IF ~h.ok THEN [err |-> "unexpected eof", desc |-> h.rec]
         ELSE IF class \notin {1, 2} THEN [err |-> "unknown class", desc |-> h.rec]
         ELSE LET r == ReadFields(buf, h.pos, e, DescRest(class), h.rec) IN
              [err |-> IF r.ok THEN "none" ELSE "unexpected eof", desc |-> r.rec]

\* variant of LoadDescription: every endianness byte other than 2 selects
\* LittleEndian
LoadDescriptionAnyOrder(buf, id, desc) ==
    LoadDescriptionWithByteorder(buf, id.class,
                                 IF id.endianness = 2 THEN 2 ELSE 1, desc)

\* load_description: the match on identification.endianness
LoadDescription(buf, id, desc) ==
    IF id.endianness \in {1, 2}
    THEN LoadDescriptionWithByteorder(buf, id.class, id.endianness, desc)
    ELSE [err |-> "unknown endianness", desc |-> desc]

\* variant of ReadSectionHeader: after a record the cursor is moved to the
\* record's start plus description.section_hdr_entry_size
ReadSectionHeaderSeek(buf, pos, class, e) ==
    LET h == ReadFields(buf, pos, e, SectionHead, DefaultSectionHeader)
        r == ReadFields(buf, h.pos, e, SectionBody(class), h.rec)
    IN  IF ~h.ok THEN [err |-> "unexpected eof", rec |-> h.rec, pos |-> h.pos]
        ELSE IF class \notin {1, 2}
             THEN [err |-> "unknown class", rec |-> h.rec, pos |-> h.pos]
        ELSE IF ~r.ok THEN [err |-> "unexpected eof", rec |-> r.rec, pos |-> r.pos]
        ELSE [err |-> "none", rec |-> r.rec,
              pos |-> pos + Val(description.section_hdr_entry_size)]

\* one iteration body of load_section_headers_with_byteorder::<E> with the
\* cursor at byte offset pos: the entry pushed and the cursor afterwards
ReadSectionHeader(buf, pos, class, e) ==
    LET h == ReadFields(buf, pos, e, SectionHead, DefaultSectionHeader) IN
    IF ~h.ok THEN [err |-> "unexpected eof", rec |-> h.rec, pos |-> h.pos]
    ELSE IF class \notin {1, 2} THEN [err |-> "unknown class", rec |-> h.rec, pos |-> h.pos]
    ELSE LET r == ReadFields(buf, h.pos, e, SectionBody(class), h.rec) IN
         [err |-> IF r.ok THEN "none" ELSE "unexpected eof", rec |-> r.rec, pos |-> r.pos]

\* one iteration body of load_program_headers_with_byteorder::<E>
ReadProgramHeader(buf, pos, class, e) ==
    IF class \notin {1, 2}
    THEN [err |-> "unknown class", rec |-> DefaultProgramHeader, pos |-> pos]
    ELSE LET r == ReadFields(buf, pos, e, ProgramBody(class), DefaultProgramHeader) IN
         [err |-> IF r.ok THEN "none" ELSE "unexpected eof", rec |-> r.rec, pos |-> r.pos]

\* variant of MoreRecords: the loop stops one iteration early
MoreRecordsShort(done, num) == done + 1 < Val(num)

\* `for _ in 0..num`: another iteration follows after `done` iterations
MoreRecords(done, num) == done < Val(num)

\* the match on endianness and the slice that open a table reader:
\* the error raised, if any
TableStart(buf, id, off) ==
    IF id.endianness \notin {1, 2} THEN "unknown endianness"
    ELSE IF ~SliceFromOk(buf, off) THEN "range start index out of range"
    ELSE "none"

\* the Elf value that Elf::new returns
ElfValue == [data |-> data,
             header |-> [identification |-> identification, description |-> description],
             section_headers |-> section_headers,
             program_headers |-> program_headers]

----------------------------------------------------------------------------
(* The inputs explored: byte buffers built around an ELF header *)

\* a byte for every offset that no header field of the input occupies; all
\* are >= 128, so every decoded filler value has its top bit set
Filler(o) == 128 + ((o * 37) % 128)

\* the w bytes of n < 2^16 in byte order e, with the top bit of the most
\* significant byte set when huge (a value of 2^31 or more)
Encode(n, w, e, huge) ==
    LET be == [i \in 1..w |->
                 IF i = w THEN n % 256
                 ELSE IF i = w - 1 THEN (n \div 256) % 256
                 ELSE IF i = 1 /\ huge THEN 128 ELSE 0]
    IN  IF e = 1 THEN Reverse(be) ELSE be

\* byte offsets of the header fields the inputs set, per class
PhoffPos(class) == IF class = 1 THEN 28 ELSE 32
ShoffPos(class) == IF class = 1 THEN 32 ELSE 40
OffWidth(class) == IF class = 1 THEN 4 ELSE 8
PhentsizePos(class) == IF class = 1 THEN 42 ELSE 54
PhnumPos(class) == PhentsizePos(class) + 2
ShentsizePos(class) == PhentsizePos(class) + 4
ShnumPos(class) == PhentsizePos(class) + 6

\* the record sizes of the ELF format
SectionRecordSize(class) == IF class = 1 THEN 40 ELSE 64
ProgramRecordSize(class) == IF class = 1 THEN 32 ELSE 56

\* buf with the bytes bs written at byte offset pos (where they fit)
Put(buf, pos, bs) ==
    [i \in 1..Len(buf) |->
       IF i - 1 >= pos /\ i - 1 < pos + Len(bs) THEN bs[i - pos] ELSE buf[i]]

\* length of an input that holds the header and MaxNum records of each table
FullLen == 72 + MaxNum * 64

\* input lengths: the boundaries of the reads of the identification block
\* and of the two headers, a length that cuts a table inside its second
\* record, and FullLen
Lens == {0, 3, 4, 5, 8, 9, 15, 16, 40, 60, 140, FullLen}

\* a table offset of an input of length len
OffsetOf(kind, fit, len) ==
    CASE kind = "fit"  -> [val |-> fit, huge |-> FALSE]
      [] kind = "end"  -> [val |-> len, huge |-> FALSE]
      [] kind = "past" -> [val |-> len + 1, huge |-> FALSE]
      [] kind = "huge" -> [val |-> fit, huge |-> TRUE]

\* the input described by p
MkInput(p) ==
    LET c  == IF p.class = 1 THEN 1 ELSE 2
        sh == OffsetOf(p.shoff, 64, p.len)
        ph == OffsetOf(p.phoff, 72, p.len)
        b0 == [i \in 1..p.len |->
                 IF i - 1 = 4 THEN p.class ELSE IF i - 1 = 5 THEN p.e ELSE Filler(i - 1)]
        b1 == Put(b0, PhoffPos(c), Encode(ph.val, OffWidth(c), p.e, ph.huge))
        b2 == Put(b1, ShoffPos(c), Encode(sh.val, OffWidth(c), p.e, sh.huge))
        b3 == Put(b2, PhentsizePos(c),
                  Encode(IF p.nat THEN ProgramRecordSize(c) ELSE 7, 2, p.e, FALSE))
        b4 == Put(b3, PhnumPos(c), Encode(p.phnum, 2, p.e, FALSE))
        b5 == Put(b4, ShentsizePos(c),
                  Encode(IF p.nat THEN SectionRecordSize(c) ELSE 9, 2, p.e, FALSE))
    IN  Put(b5, ShnumPos(c), Encode(p.shnum, 2, p.e, FALSE))

\* inputs of a known class and endianness: every count, table placement,
\* length and entry-size setting
KnownParams ==
    [class : {1, 2}, e : {1, 2}, shnum : 0..MaxNum, phnum : 0..MaxNum,
     shoff : {"fit", "end", "past", "huge"}, phoff : {"fit", "end", "past"},
     len : Lens, nat : BOOLEAN]

\* inputs whose class or endianness byte is not 1 or 2
UnknownParams ==
    [class : 0..3, e : 0..3, shnum : {1}, phnum : {1}, shoff : {"fit"},
     phoff : {"fit"}, len : Lens, nat : {TRUE}] \ KnownParams

\* inputs read from a file by Elf::open
FileParams ==
    UnknownParams \cup
    {p \in KnownParams : p.shoff = "fit" /\ p.phoff = "fit" /\ p.nat}

Inputs == {MkInput(p) : p \in KnownParams \cup UnknownParams}

FileInputs == {MkInput(p) : p \in FileParams}

----------------------------------------------------------------------------
(* The state machine *)

Init ==
    /\ \/ mode = "new" /\ pc = "new" /\ input \in Inputs
       \/ mode = "open" /\ pc = "open" /\ input \in FileInputs
    /\ file = "none"
    /\ data = <<>>
    /\ identification = DefaultIdentification
    /\ description = DefaultDescription
    /\ section_headers = <<>>
    /\ program_headers = <<>>
    /\ cursor = 0
    /\ stage = "none"
    /\ err = "none"
    /\ result = <<>>

\* Elf::open: File::open(path)?
OpenFile ==
    /\ pc = "open"
    /\ \E ok \in BOOLEAN :
         IF ok THEN file' = "open" /\ pc' = "read" /\ err' = err
         ELSE file' = file /\ pc' = "io_error" /\ err' = "io error"
    /\ UNCHANGED <<stage, input, mode, data, identification, description,
                   section_headers, program_headers, cursor, result>>

\* Elf::open: file.read_to_end(&mut data)?; on Err the function returns and
\* its locals, the File among them, are dropped
ReadToEnd ==
    /\ pc = "read"
    /\ \E ok \in BOOLEAN :
         IF ok THEN file' = file /\ pc' = "new" /\ err' = err
         ELSE file' = "closed" /\ pc' = "io_error" /\ err' = "io error"
    /\ UNCHANGED <<stage, input, mode, data, identification, description,
                   section_headers, program_headers, cursor, result>>

\* Elf::new: the struct literal
New ==
    /\ pc = "new"
    /\ data' = input
    /\ identification' = DefaultIdentification
    /\ description' = DefaultDescription
    /\ section_headers' = <<>>
    /\ program_headers' = <<>>
    /\ pc' = "ident"
    /\ UNCHANGED <<stage, input, mode, file, cursor, err, result>>

\* elf.load_identification()
LoadIdent ==
    /\ pc = "ident"
    /\ LET r == LoadIdentification(data, identification) IN
         /\ identification' = r.id
         /\ err' = r.err
         /\ pc' = IF r.err = "none" THEN "desc" ELSE "panic"
    /\ stage' = "load_identification"
    /\ UNCHANGED <<input, mode, file, data, description, section_headers,
                   program_headers, cursor, result>>

\* elf.load_description()
LoadDesc ==
    /\ pc = "desc"
    /\ LET r == LoadDescription(data, identification, description) IN
         /\ description' = r.desc
         /\ err' = r.err
         /\ pc' = IF r.err = "none" THEN "sh" ELSE "panic"
    /\ stage' = "load_description"
    /\ UNCHANGED <<input, mode, file, data, identification, section_headers,
                   program_headers, cursor, result>>

\* elf.load_section_headers() up to the loop: the cursor over data[offset..]
LoadSectionHeaders ==
    /\ pc = "sh"
    /\ LET s == TableStart(data, identification, description.section_hdr_offset) IN
         /\ err' = s
         /\ pc' = IF s = "none" THEN "sh_loop" ELSE "panic"
         /\ cursor' = IF s = "none" THEN Val(description.section_hdr_offset) ELSE cursor
    /\ stage' = "load_section_headers"
    /\ UNCHANGED <<input, mode, file, data, identification, description,
                   section_headers, program_headers, result>>

\* one pass of the loop of load_section_headers_with_byteorder, or its exit
SectionHeaderLoop ==
    /\ pc = "sh_loop"
    /\ IF MoreRecords(Len(section_headers), description.section_hdr_num)
       THEN LET r == ReadSectionHeader(data, cursor, identification.class,
                                       identification.endianness) IN
            IF r.err = "none"
            THEN /\ section_headers' = Append(section_headers, r.rec)
                 /\ cursor' = r.pos
                 /\ UNCHANGED <<pc, err>>
            ELSE /\ err' = r.err
                 /\ pc' = "panic"
                 /\ UNCHANGED <<section_headers, cursor>>
       ELSE /\ pc' = "ph"
            /\ UNCHANGED <<section_headers, cursor, err>>
    /\ UNCHANGED <<stage, input, mode, file, data, identification, description,
                   program_headers, result>>

\* elf.load_program_headers() up to the loop
LoadProgramHeaders ==
    /\ pc = "ph"
    /\ LET s == TableStart(data, identification, description.program_hdr_offset) IN
         /\ err' = s
         /\ pc' = IF s = "none" THEN "ph_loop" ELSE "panic"
         /\ cursor' = IF s = "none" THEN Val(description.program_hdr_offset) ELSE cursor
    /\ stage' = "load_program_headers"
    /\ UNCHANGED <<input, mode, file, data, identification, description,
                   section_headers, program_headers, result>>

\* one pass of the loop of load_program_headers_with_byteorder, or its exit
ProgramHeaderLoop ==
    /\ pc = "ph_loop"
    /\ IF MoreRecords(Len(program_headers), description.program_hdr_num)
       THEN LET r == ReadProgramHeader(data, cursor, identification.class,
                                       identification.endianness) IN
            IF r.err = "none"
            THEN /\ program_headers' = Append(program_headers, r.rec)
                 /\ cursor' = r.pos
                 /\ UNCHANGED <<pc, err>>
            ELSE /\ err' = r.err
                 /\ pc' = "panic"
                 /\ UNCHANGED <<program_headers, cursor>>
       ELSE /\ pc' = "ret"
            /\ UNCHANGED <<program_headers, cursor, err>>
    /\ UNCHANGED <<stage, input, mode, file, data, identification, description,
                   section_headers, result>>

\* Elf::new returns elf
NewReturn ==
    /\ pc = "ret"
    /\ result' = <<ElfValue>>
    /\ pc' = IF mode = "open" THEN "open_ret" ELSE "done"
    /\ UNCHANGED <<stage, input, mode, file, data, identification, description,
                   section_headers, program_headers, cursor, err>>

\* Elf::open returns Ok(..): its local `file` goes out of scope
OpenReturn ==
    /\ pc = "open_ret"
    /\ file' = "closed"
    /\ pc' = "done"
    /\ UNCHANGED <<stage, input, mode, data, identification, description,
                   section_headers, program_headers, cursor, err, result>>

\* a panic unwinds out of Elf::new and, under Elf::open, out of open,
\* dropping the locals of both
Unwind ==
    /\ pc = "panic"
    /\ pc' = "unwound"
    /\ file' = IF file = "open" THEN "closed" ELSE file
    /\ UNCHANGED <<stage, input, mode, data, identification, description,
                   section_headers, program_headers, cursor, err, result>>

Next ==
    \/ OpenFile
    \/ ReadToEnd
    \/ New
    \/ LoadIdent
    \/ LoadDesc
    \/ LoadSectionHeaders
    \/ SectionHeaderLoop
    \/ LoadProgramHeaders
    \/ ProgramHeaderLoop
    \/ NewReturn
    \/ OpenReturn
    \/ Unwind

Spec == Init /\ [][Next]_vars

----------------------------------------------------------------------------
(* Vocabulary of the properties *)

\* load_description has returned without a panic
DescriptionDecoded ==
    \/ stage \in {"load_section_headers", "load_program_headers"}
    \/ stage = "load_description" /\ pc = "sh"

\* the stages of Elf::new are running or have ended (by return or by panic)
Decoding ==
    pc \in {"new", "ident", "desc", "sh", "sh_loop", "ph", "ph_loop", "ret",
            "open_ret", "panic"}

\* the bytes a field occupies in the file: the low `width` digits as stored
FilePart(v, f) == SubSeq(v, f.store - f.width + 1, f.store)

\* the digits a widening adds in front of the file's bytes
AddedPart(v, f) == SubSeq(v, 1, f.store - f.width)

\* record i (from 1) of a table at byte offset off with records of size bytes
RecordOffset(off, i, size) == Val(off) + (i - 1) * size

\* the size of the ELF header of a class
HeaderSize(class) == IF class = 1 THEN 52 ELSE 64

\* no truncated read, unknown endianness or unknown class applies to elf.data
NoFailureApplies(elf) ==
    LET buf == elf.data
        d   == elf.header.description
    IN  /\ Len(buf) >= 9
        /\ buf[6] \in {1, 2}
        /\ buf[5] \in {1, 2}
        /\ Len(buf) >= HeaderSize(buf[5])
        /\ LeqDigits(d.section_hdr_offset, ToDigits(Len(buf), 8))
        /\ Val(d.section_hdr_offset)
             + Val(d.section_hdr_num) * SectionRecordSize(buf[5]) <= Len(buf)
        /\ LeqDigits(d.program_hdr_offset, ToDigits(Len(buf), 8))
        /\ Val(d.program_hdr_offset)
             + Val(d.program_hdr_num) * ProgramRecordSize(buf[5]) <= Len(buf)

----------------------------------------------------------------------------
(* C1 *)

\* C1: when the description was decoded and section_hdr_num = 0 (program_hdr_num
\* = 0), the section (program) table read does not fail and yields an empty
\* sequence, for every section_hdr_offset (program_hdr_offset), offsets
\* larger than the buffer length included.
C1_ZeroCountNeverFails ==
    /\ (stage = "load_section_headers" /\ Val(description.section_hdr_num) = 0)
         => (err = "none" /\ section_headers = <<>>)
    /\ (stage = "load_program_headers" /\ Val(description.program_hdr_num) = 0)
         => (err = "none" /\ program_headers = <<>>)

----------------------------------------------------------------------------
(* C2 *)

\* C2: the value Elf::new returns has exactly section_hdr_num section
\* entries and program_hdr_num program entries, and entry i of each is the
\* i-th record of its table in file order.
C2_LengthsAndOrder ==
    result # <<>> =>
      LET elf == result[1]
          id  == elf.header.identification
          d   == elf.header.description
      IN  /\ Len(elf.section_headers) = Val(d.section_hdr_num)
          /\ Len(elf.program_headers) = Val(d.program_hdr_num)
          /\ \A i \in 1..Len(elf.section_headers) :
               elf.section_headers[i] =
                 ReadSectionHeader(elf.data,
                   RecordOffset(d.section_hdr_offset, i, SectionRecordSize(id.class)),
                   id.class, id.endianness).rec
          /\ \A i \in 1..Len(elf.program_headers) :
               elf.program_headers[i] =
                 ReadProgramHeader(elf.data,
                   RecordOffset(d.program_hdr_offset, i, ProgramRecordSize(id.class)),
                   id.class, id.endianness).rec

\* a returned value with a table of MaxNum records and an empty table
C2_Witness ==
    /\ result # <<>>
    /\ Len(result[1].section_headers) = MaxNum
    /\ Len(result[1].program_headers) = 0
    /\ result[1].section_headers[1] # result[1].section_headers[2]

----------------------------------------------------------------------------
(* C3 *)

\* C3: a failure in any stage leaves Elf::new without a value: once an error
\* is raised there is no result, and a result exists only for a buffer to
\* which no failure condition applies, so its sequences are complete.
C3_FailureAbortsDecode ==
    /\ err # "none" => result = <<>>
    /\ result # <<>> => (err = "none" /\ NoFailureApplies(result[1]))

\* a section table that failed at its second record, after one was decoded
C3_Witness ==
    /\ pc = "unwound"
    /\ stage = "load_section_headers"
    /\ err = "unexpected eof"
    /\ Len(section_headers) = 1
    /\ result = <<>>

----------------------------------------------------------------------------
(* C4 *)

\* C4: for a buffer of at least 9 bytes whose byte 5 is not 1 or 2, whatever
\* its class byte, load_description fails with "unknown endianness" and the
\* description is still the default: no field of it was read or assigned.
C4_UnknownEndianness ==
    (Len(input) >= 9 /\ input[6] \notin {1, 2}
       /\ stage \notin {"none", "load_identification"})
      => /\ stage = "load_description"
         /\ pc \in {"panic", "unwound"}
         /\ err = "unknown endianness"
         /\ description = DefaultDescription
         /\ result = <<>>

\* a 64-bit buffer with endianness byte 3 that failed in load_description
C4_Witness ==
    /\ stage = "load_description"
    /\ err = "unknown endianness"
    /\ identification.endianness = 3
    /\ identification.class = 2
    /\ Len(data) > 16

----------------------------------------------------------------------------
(* C5 *)

\* C5: for a buffer shorter than 9 bytes decoding fails in
\* load_identification: load_description is never entered and the
\* description keeps its default.
C5_ShortBufferFailsInIdentification ==
    Len(input) < 9 =>
      /\ stage \in {"none", "load_identification"}
      /\ description = DefaultDescription
      /\ result = <<>>
      /\ stage = "load_identification"
           => (pc \in {"panic", "unwound"} /\ err # "none")

\* a buffer of 8 bytes: the panic came at data[8], after os_abi was assigned
C5_Witness ==
    /\ Len(input) = 8
    /\ pc = "unwound"
    /\ err = "index out of bounds"
    /\ identification.os_abi = input[8]
    /\ identification.abi_version = 0

----------------------------------------------------------------------------
(* C6 *)

\* C6: the flags of every decoded program record are the 4 bytes at record
\* offset 4 for class 2 and at record offset 24 for class 1, in the byte
\* order of the file, for every record index.
C6_ProgramFlagsPosition ==
    \A i \in 1..Len(program_headers) :
      program_headers[i].flags =
        ReadUint(data,
                 RecordOffset(description.program_hdr_offset, i,
                              ProgramRecordSize(identification.class))
                   + (IF identification.class = 2 THEN 4 ELSE 24),
                 4, identification.endianness)

\* a 64-bit big-endian decode with a second program record
C6_Witness ==
    /\ pc = "done"
    /\ identification.class = 2
    /\ identification.endianness = 2
    /\ Len(program_headers) = 2
    /\ program_headers[2].flags # program_headers[2].entry_type

----------------------------------------------------------------------------
(* C7 *)

\* C7: once the description is decoded, the buffer that differs only in
\* byte 5 (1 <-> 2) decodes too; each multi-byte description field of it is
\* the byte reversal, at the field's width in the file, of the field decoded
\* here, and magic, class, version, OS ABI and ABI version are the same.
C7_EndiannessReversal ==
    DescriptionDecoded =>
      LET other == Put(data, 5, << 3 - identification.endianness >>)
          id2   == LoadIdentification(other, DefaultIdentification)
          d2    == LoadDescription(other, id2.id, DefaultDescription)
          lay   == DescHead \o DescRest(identification.class)
      IN  /\ id2.err = "none"
          /\ d2.err = "none"
          /\ id2.id = [identification EXCEPT
                         !.endianness = 3 - identification.endianness]
          /\ \A k \in 1..Len(lay) :
               /\ FilePart(d2.desc[lay[k].name], lay[k])
                    = Reverse(FilePart(description[lay[k].name], lay[k]))
               /\ AddedPart(d2.desc[lay[k].name], lay[k])
                    = AddedPart(description[lay[k].name], lay[k])

\* a big-endian decode that ran to the end, with a field that is no palindrome
C7_Witness ==
    /\ pc = "done"
    /\ identification.endianness = 2
    /\ description.machine # Reverse(description.machine)

----------------------------------------------------------------------------
(* C8 *)

\* C8: for class 1, entry, program_hdr_offset and section_hdr_offset are the
\* 4-byte values of the file zero-extended: the upper 4 bytes are 0 and the
\* lower 4 are the value read, also when that value is 2^31 or more.
C8_ZeroExtension ==
    (DescriptionDecoded /\ identification.class = 1) =>
      /\ description.entry
           = Zeros(4) \o ReadUint(data, 24, 4, identification.endianness)
      /\ description.program_hdr_offset
           = Zeros(4) \o ReadUint(data, 28, 4, identification.endianness)
      /\ description.section_hdr_offset
           = Zeros(4) \o ReadUint(data, 32, 4, identification.endianness)

\* a complete 32-bit decode whose entry has its top bit set
C8_Witness ==
    /\ pc = "done"
    /\ identification.class = 1
    /\ description.entry[5] >= 128

----------------------------------------------------------------------------
(* C9 *)

\* C9: under Elf::open the file handle is released when the whole-file read
\* completes, before the first decoding stage: it is not open at any point
\* during or after decoding.
C9_HandleClosedBeforeDecoding ==
    (mode = "open" /\ (Decoding \/ pc \in {"done", "unwound"}))
      => file # "open"

----------------------------------------------------------------------------
(* C10 *)

\* C10: the table readers advance by the record size of the class: before
\* each section (program) record the cursor is at the table offset plus the
\* number of records read times 40 or 64 (32 or 56), every entry is the
\* record at that place, and the sequences are those of the buffer whose two
\* entry-size fields hold any other value.
C10_NaturalStride ==
    LET c == identification.class
        e == identification.endianness
    IN  /\ pc = "sh_loop" =>
             cursor = RecordOffset(description.section_hdr_offset,
                                   Len(section_headers) + 1, SectionRecordSize(c))
        /\ pc = "ph_loop" =>
             cursor = RecordOffset(description.program_hdr_offset,
                                   Len(program_headers) + 1, ProgramRecordSize(c))
        /\ pc \in {"ret", "open_ret", "done"} =>
             \A es \in {0, 7, SectionRecordSize(c)} :
               LET other == Put(Put(data, ShentsizePos(c), Encode(es, 2, e, FALSE)),
                                PhentsizePos(c), Encode(es, 2, e, FALSE))
                   d2    == LoadDescription(other, identification,
                                            DefaultDescription).desc
               IN  /\ Val(d2.section_hdr_entry_size) = es
                   /\ section_headers =
                        [i \in 1..Val(d2.section_hdr_num) |->
                           ReadSectionHeader(other,
                             RecordOffset(d2.section_hdr_offset, i,
                                          SectionRecordSize(c)), c, e).rec]
                   /\ program_headers =
                        [i \in 1..Val(d2.program_hdr_num) |->
                           ReadProgramHeader(other,
                             RecordOffset(d2.program_hdr_offset, i,
                                          ProgramRecordSize(c)), c, e).rec]

\* a complete decode of two records per table whose section entry size
\* field is not the record size
C10_Witness ==
    /\ pc = "done"
    /\ Len(section_headers) = 2
    /\ Len(program_headers) = 2
    /\ Val(description.section_hdr_entry_size) = 9
    /\ Val(description.program_hdr_entry_size) = 7

====
